---------------------------- MODULE Spec2Model ----------------------------
(***************************************************************************)
(* Model of the WebSocket order-book checks of crypto_com_qa_challenges:   *)
(*   resources/utils/ws_book_utils.py   classifiers, waits, delta checker  *)
(*   resources/services/ws_client.py    WSClient: receive task and queue   *)
(*   tests/test_ws_book.py              test_book_delta_sequence           *)
(* and of the stateless helpers of its REST candlestick checks:            *)
(*   tests/conftest.py                  app_cfg, the environment resolver  *)
(*   resources/functions/candlestick_utils.py                              *)
(*                                      extract_result, norm_tf,           *)
(*                                      assert_sorted_by_t, time window    *)
(*                                                                         *)
(* A decoded JSON message is a record with one field per key the code      *)
(* reads; an absent key (dict.get returning None) holds None (numbers)     *)
(* or NoneS (strings).  "data" carries a presence flag beside its list.    *)
(***************************************************************************)
EXTENDS Integers, Sequences, FiniteSets, TLC

VARIABLES
    \* ---- find_consistent_delta / the delta loop of _round_try ----
    pc,            \* position of the consumer coroutine
    now,           \* event-loop clock, seconds since the deadline was set
    deadline,      \* deadline = time() + max_seconds
    channels,      \* set(channels): the accepted channel set
    last_u,        \* the update cursor (None when unset)
    chv,           \* channel of the payload being iterated
    data,          \* items of the current payload still to be iterated
    result,        \* "none" | "True" | "False": the value returned
    exc,           \* "none" or the name of the exception raised
    \* ---- history of the run (not read by the code) ----
    seen,          \* every u seen so far, the initial cursor included
    puSeen,        \* a processed item carried a pu in seen
    recent_u,      \* u of the most recent processed item carrying one
    cursorMatch,   \* a processed item carried pu = recent_u
    hit,           \* the item on which True was returned
    timedOut,      \* a receive ended with a timeout
    raised_at,     \* pc at which exc was raised
    foreign_items, \* the last message received carried items under a
                   \* channel outside the accepted set and not "book"
    \* ---- test_book_delta_sequence ----
    round_no,      \* 0 outside the scenario; else the current attempt
    subs,          \* subscribe requests sent
    unsubs,        \* unsubscribe calls made
    unsub_failed,  \* the unsubscribe call raised (and was ignored)
    req_id,        \* id of the pending subscribe request
    payload,       \* payload returned by wait_first_data
    results,       \* values returned by the finished attempts
    cursor_round,  \* attempt in which last_u was last assigned
    ack_round,     \* attempt whose subscribe was last acknowledged
    ack_msg,       \* the message wait_subscribe_ack decided on
    ack_skipped,   \* a discarded message had the request's id and method
    fd_msg,        \* the message wait_first_data returned on
    fd_skipped,    \* an earlier message it skipped was a qualifying one
    ack_dropped,   \* a message wait_subscribe_ack discarded was a data payload
    ack_behind,    \* messages queued behind the acknowledgment when it was taken
    fd_behind,     \* messages queued behind the first data when it was taken
    \* ---- frames under reordering ----
    transport,     \* frames in the order the transport received them
    pending,       \* frames not yet delivered to the consumer
    cur0,          \* the cursor the run started with
    \* ---- assert_subscribe_ack applied to one message ----
    msg,           \* the message handed to the validator
    expected_ch,   \* the channel key it is validated against
    ack_outcome,   \* "pending" | "ok" | the assert that failed
    \* ---- WSClient ----
    running,       \* self._running
    rl_pc,         \* position of the background task _recv_loop
    hb_id,         \* id of the heartbeat being answered
    queue,         \* self._msg_queue
    sent,          \* frames written by ws.send
    received,      \* frames ws.recv() has returned to _recv_loop, in order
    delivered,     \* messages returned by successful WSClient.recv calls
    c_pc,          \* the consumer: "idle" | "waiting" (inside recv)
    c_timeouts,    \* recv calls that ended with a timeout
    closed,        \* __aexit__ has run
    task_exc,      \* exception kept by the finished task _recv_task
    c_timeout,     \* timeout of the pending recv call (None: no timer)
    c_last,        \* how the last recv call ended: "message" | "TimeoutError"
    c_last_failed, \* the receive task had failed when that call ended
    \* ---- one call of a stateless helper ----
    fn,            \* the function applied ("none" before the call)
    args,          \* its arguments
    ret            \* the value returned (NoRet when it raised)

---------------------------------------------------------------------------
\* Bounds of the model.
MaxU == 2                  \* update ids are 1..MaxU

\* Program constants.
None == -9                 \* Python None in a number-valued field
NoneS == "None"            \* Python None in a string-valued field
RecvTimeoutSecs == 10      \* ws.recv(timeout=10)
MaxSeconds == 25           \* _round_try(..., max_seconds=25)

ExpectedCh == "book.BTCUSD-PERP.10"
Book == "book"
TradeCh == "trade.BTCUSD-PERP"

\* Seconds a successful receive may take (always below the receive timeout).
Delays == {0, 5}

UIds == 1..MaxU
UVals == UIds \cup {None}
Items == [u : UVals, pu : UVals]

\* data key: absent, empty list, one item, two items.
DataOpts ==
    {[has_data |-> FALSE, data |-> <<>>], [has_data |-> TRUE, data |-> <<>>]}
    \cup {[has_data |-> TRUE, data |-> <<a>>] : a \in Items}
    \cup {[has_data |-> TRUE, data |-> <<a, b>>] : a \in Items, b \in Items}

NoEnvelope == [present |-> FALSE, channel |-> NoneS, has_data |-> FALSE, data |-> <<>>]

\* {"result": {"channel": .., "data": [..]}}: the envelope of a data message.
Envelopes ==
    {[present |-> TRUE, channel |-> c, has_data |-> d.has_data, data |-> d.data] :
        c \in {ExpectedCh, Book, TradeCh}, d \in DataOpts}

\* Data messages: pushed with id -1, wrapped in "result" or bare.
DataMsgs ==
    {[id |-> -1, method |-> "subscribe", code |-> 0, channel |-> NoneS,
      subscription |-> NoneS, has_data |-> FALSE, data |-> <<>>, result |-> e] :
        e \in Envelopes}
    \cup
    {[id |-> -1, method |-> "subscribe", code |-> 0, channel |-> c,
      subscription |-> NoneS, has_data |-> d.has_data, data |-> d.data,
      result |-> NoEnvelope] :
        c \in {ExpectedCh, Book, TradeCh, NoneS}, d \in DataOpts}

\* Responses to requests: {"id":..,"method":..,"code":..,"channel":..,"subscription":..}
AckMsgs ==
    {[id |-> i, method |-> m, code |-> k, channel |-> c, subscription |-> s,
      has_data |-> FALSE, data |-> <<>>, result |-> NoEnvelope] :
        i \in {-1, 1, 2}, m \in {"subscribe", "unsubscribe"}, k \in {0, 1},
        c \in {ExpectedCh, Book, TradeCh, NoneS}, s \in {ExpectedCh, NoneS}}

Msgs == AckMsgs \cup DataMsgs

---------------------------------------------------------------------------
\* Pure helpers of ws_book_utils.py.

\* bool(d) of a dict: it has at least one key.
Truthy(env) == env.channel # NoneS \/ env.has_data

\* payload = msg.get("result") or msg
Payload(m) ==
    IF m.result.present /\ Truthy(m.result)
    THEN [channel |-> m.result.channel, has_data |-> m.result.has_data,
          data |-> m.result.data]
    ELSE [channel |-> m.channel, has_data |-> m.has_data, data |-> m.data]

NoPayload == [channel |-> NoneS, has_data |-> FALSE, data |-> <<>>]

ChannelAccepted_NoFilter(c, chs) == c # NoneS

\* not (chv not in channels and chv != "book")
ChannelAccepted(c, chs) == c \in chs \/ c = Book

AdvanceCursor_OnlyForward(u, cur) ==
    IF u # None /\ (cur = None \/ u > cur) THEN u ELSE cur

AdvanceCursor_Reset(u, cur) == u

ConsistencyRule_AnyPu(pu, cur) == pu # None /\ cur # None

\* pu is not None and last_u is not None and pu == last_u
ConsistencyRule(pu, cur) == pu # None /\ cur # None /\ pu = cur

AdvanceCursor_Never(u, cur) == cur

\* if u is not None: last_u = u
AdvanceCursor(u, cur) == IF u # None THEN u ELSE cur

NoHit == [found |-> FALSE, chan |-> NoneS, pu |-> None, cur |-> None, rnd |-> 0]

---------------------------------------------------------------------------
\* find_consistent_delta(ws, channels, last_u, max_seconds)

deltaVars == <<pc, now, deadline, channels, last_u, chv, data, result, exc>>
histVars == <<seen, puSeen, recent_u, cursorMatch, hit, foreign_items, timedOut,
              raised_at>>
scenCtl == <<round_no, subs, unsubs, unsub_failed, req_id, payload, results>>
waitHist == <<ack_round, ack_msg, ack_skipped, fd_msg, fd_skipped,
              ack_dropped, ack_behind, fd_behind>>
scenVars == <<scenCtl, waitHist, cursor_round>>
reorderVars == <<transport, pending, cur0>>
ackVars == <<msg, expected_ch, ack_outcome>>
clientVars == <<running, rl_pc, hb_id, queue, sent, received, delivered, c_pc,
                c_timeouts, closed, task_exc, c_timeout, c_last, c_last_failed>>
callVars == <<fn, args, ret>>
sideVars == <<ackVars, clientVars, callVars>>
\* sideVars without the message queue
sideRest == <<ackVars, callVars, running, rl_pc, hb_id, sent, received, delivered,
              c_pc, c_timeouts, closed, task_exc, c_timeout, c_last, c_last_failed>>
vars == <<deltaVars, histVars, scenVars, reorderVars, sideVars>>

NoMsg == [id |-> None, method |-> NoneS, code |-> None, channel |-> NoneS,
          subscription |-> NoneS, has_data |-> FALSE, data |-> <<>>,
          result |-> NoEnvelope]

ScenarioIdle ==
    /\ round_no = 0 /\ subs = 0 /\ unsubs = 0 /\ unsub_failed = FALSE
    /\ req_id = None /\ payload = NoPayload /\ results = <<>>
    /\ cursor_round = 0 /\ ack_round = 0 /\ ack_msg = NoMsg /\ ack_skipped = FALSE
    /\ fd_msg = NoMsg /\ fd_skipped = FALSE
    /\ ack_dropped = FALSE /\ ack_behind = None /\ fd_behind = None

ReorderIdle == transport = <<>> /\ pending = {} /\ cur0 = None

AckIdle == msg = NoMsg /\ expected_ch = NoneS /\ ack_outcome = "pending"

ClientIdle ==
    /\ running = FALSE /\ rl_pc = "none" /\ hb_id = None
    /\ queue = <<>> /\ sent = <<>> /\ received = <<>> /\ delivered = <<>>
    /\ c_pc = "idle" /\ c_timeouts = 0
    /\ closed = FALSE /\ task_exc = "none"
    /\ c_timeout = None /\ c_last = "none" /\ c_last_failed = FALSE

NoArgs == <<>>
NoRet == <<>>

CallIdle == fn = "none" /\ args = NoArgs /\ ret = NoRet

HistInit(cur) ==
    /\ seen = (IF cur # None THEN {cur} ELSE {})
    /\ puSeen = FALSE
    /\ recent_u = cur
    /\ cursorMatch = FALSE
    /\ hit = NoHit
    /\ timedOut = FALSE
    /\ raised_at = "none"
    /\ foreign_items = FALSE

\* The message carries items under a channel that is neither in the accepted
\* set nor the generic "book".
ForeignWithItems(m, chs) ==
    LET e == IF m.result.present THEN m.result ELSE m IN
    e.channel \notin chs \cup {Book} /\ e.data # <<>>

\* The call: deadline = time() + max_seconds; channels = set(channels).
DeltaInit ==
    /\ pc = "loop"
    /\ now = 0
    /\ deadline = MaxSeconds
    /\ channels \in {{ExpectedCh}, {ExpectedCh, TradeCh}}
    /\ last_u \in UVals
    /\ chv = NoneS
    /\ data = <<>>
    /\ result = "none"
    /\ exc = "none"
    /\ HistInit(last_u)
    /\ ScenarioIdle
    /\ ReorderIdle
    /\ AckIdle
    /\ ClientIdle
    /\ CallIdle

QueueGet_Peek(q) == q

\* await self._msg_queue.get(): the head is returned and removed.
QueueGet(q) == Tail(q)

\* The queue as get() finds it when it returns: what is already queued, or
\* else the one message that arrives while recv waits.
QueueAtGet(q) == IF q # <<>> THEN {q} ELSE {<<m>> : m \in Msgs}

\* Number of queued messages behind the one get() returns; -1 for a message
\* that was not queued yet when recv was called.
Behind(q) == IF q # <<>> THEN Len(q) - 1 ELSE -1

\* The body of the while loop for one received message: unwrap, filter on the
\* channel, and start the iteration over the items.
Deliver(m) ==
    LET p == Payload(m) IN
    IF ChannelAccepted(p.channel, channels) /\ p.data # <<>>
    THEN pc' = "items" /\ chv' = p.channel /\ data' = p.data
    ELSE pc' = "loop" /\ chv' = NoneS /\ data' = <<>>

\* while time() < deadline: msg = await ws.recv(timeout=10), a message arrives.
RecvMsg ==
    /\ pc = "loop"
    /\ now < deadline
    /\ \E d \in Delays, qq \in QueueAtGet(queue) :
        LET m == Head(qq) IN
        /\ now' = now + d
        /\ queue' = QueueGet(qq)
        /\ Deliver(m)
        /\ foreign_items' = ForeignWithItems(m, channels)
    /\ UNCHANGED <<deadline, channels, last_u, result, exc>>
    /\ UNCHANGED <<seen, puSeen, recent_u, cursorMatch, hit, timedOut, raised_at>>
    /\ UNCHANGED <<scenVars, reorderVars, sideRest>>

\* msg = await ws.recv(timeout=10), the queue stays empty: asyncio.wait_for
\* raises TimeoutError, which nothing in the function catches.
RecvTimeout ==
    /\ pc = "loop"
    /\ now < deadline
    /\ queue = <<>>
    /\ now' = now + RecvTimeoutSecs
    /\ pc' = "raised"
    /\ exc' = "TimeoutError"
    /\ timedOut' = TRUE
    /\ raised_at' = "loop"
    /\ UNCHANGED <<deadline, channels, last_u, chv, data, result>>
    /\ UNCHANGED <<seen, puSeen, recent_u, cursorMatch, hit, foreign_items>>
    /\ UNCHANGED <<scenVars, reorderVars, sideVars>>

\* One iteration of: for item in payload.get("data", [])
ProcessItem ==
    /\ pc = "items"
    /\ data # <<>>
    /\ LET item == Head(data) IN
        /\ IF ConsistencyRule(item.pu, last_u)
           THEN /\ result' = "True"
                /\ pc' = "done"
                /\ hit' = [found |-> TRUE, chan |-> chv, pu |-> item.pu,
                           cur |-> last_u, rnd |-> cursor_round]
                /\ UNCHANGED <<last_u, chv, data, cursor_round>>
           ELSE /\ last_u' = AdvanceCursor(item.u, last_u)
                /\ cursor_round' = (IF item.u # None THEN round_no ELSE cursor_round)
                /\ data' = Tail(data)
                /\ chv' = (IF Tail(data) = <<>> THEN NoneS ELSE chv)
                /\ pc' = (IF Tail(data) = <<>> THEN "loop" ELSE "items")
                /\ UNCHANGED <<result, hit>>
        /\ puSeen' = (puSeen \/ (/\ chv \in channels \cup {Book}
                                  /\ item.pu # None /\ item.pu \in seen))
        /\ seen' = (IF item.u # None THEN seen \cup {item.u} ELSE seen)
        /\ cursorMatch' = (cursorMatch \/
                            (/\ chv \in channels \cup {Book}
                             /\ item.pu # None /\ recent_u # None
                             /\ item.pu = recent_u))
        /\ recent_u' = (IF item.u # None THEN item.u ELSE recent_u)
    /\ UNCHANGED <<now, deadline, channels, exc, timedOut, raised_at>>
    /\ UNCHANGED <<foreign_items, scenCtl, waitHist, reorderVars, sideVars>>

\* The while condition fails: return False.
LoopExit ==
    /\ pc = "loop"
    /\ now >= deadline
    /\ pc' = "done"
    /\ result' = "False"
    /\ UNCHANGED <<now, deadline, channels, last_u, chv, data, exc>>
    /\ UNCHANGED <<histVars, scenVars, reorderVars, sideVars>>

DeltaNext == RecvMsg \/ RecvTimeout \/ ProcessItem \/ LoopExit

SpecDelta == DeltaInit /\ [][DeltaNext]_vars

---------------------------------------------------------------------------
\* C1 (as stated): find_consistent_delta returns True exactly when a processed
\* item carries a pu equal to SOME earlier-seen u (the initial cursor
\* included), e.g. cursor 1, then {u:2}, then {pu:1}.
C1_TrueIffPuEqualsSomeEarlierU == (result = "True") <=> puSeen

\* C1 (amended): find_consistent_delta returns True exactly when a processed
\* item of an accepted-channel message carries a pu equal to the u of the most
\* recently processed item that carried one (the initial cursor if none did).
C1_TrueIffPuEqualsLatestU == (result = "True") <=> cursorMatch

\* The spec's example: a pu equal to an older u (not the latest) was
\* processed and the call returned False.
C1_Witness ==
    /\ round_no = 0 /\ pc = "done" /\ result = "False"
    /\ puSeen /\ ~cursorMatch

\* C2 (as stated): a per-receive timeout does not abort find_consistent_delta:
\* after one the loop goes on to the deadline, and a call that ends without a
\* match ends by returning False, never by raising.
C2_TimeoutDoesNotAbort ==
    /\ timedOut => (exc = "none" /\ pc # "raised")
    /\ (pc \in {"done", "raised"} /\ ~cursorMatch) => result = "False"

\* C18: while find_consistent_delta has not returned True, last_u equals the
\* u of the most recently processed item that carried one (the initial
\* last_u if none did): an item that fails the consistency rule advances the
\* cursor when it carries u, an item without u leaves it unchanged.
C18_CursorIsLatestProcessedU ==
    (round_no = 0 /\ pc \in {"loop", "items", "done", "raised"}
     /\ result # "True")
        => last_u = recent_u

\* Items carrying two different ids were processed without a match; the
\* cursor is the later one.
C18_Witness ==
    /\ round_no = 0 /\ pc = "loop" /\ result = "none"
    /\ Cardinality(seen) >= 2 /\ ~cursorMatch
    /\ last_u # None /\ last_u = recent_u

\* C19 (as stated): for every message sequence the successive values of
\* last_u within one call never decrease.
C19_CursorNeverDecreases ==
    [][last_u # None => (last_u' # None /\ last_u' >= last_u)]_vars

\* C19, amended: last_u is set to the u of every processed item that does
\* not match, whatever its value; so the cursor decreases exactly in the steps
\* that process a non-matching item carrying a u below the current cursor,
\* and never decreases on a stream whose u values arrive in ascending order.
C19_CursorDecreasesOnlyOnSmallerU ==
    [][(last_u # None /\ last_u' < last_u)
        <=> (/\ pc = "items" /\ last_u # None
             /\ ~(Head(data).pu # None /\ Head(data).pu = last_u)
             /\ Head(data).u # None /\ Head(data).u < last_u)]_vars

\* The cursor stands below an update id seen earlier in the same call.
C19_Witness ==
    /\ round_no = 0 /\ pc \in {"loop", "items"} /\ result = "none"
    /\ last_u # None /\ \E s \in seen : s > last_u

\* C20: a message whose channel is neither in the accepted set nor "book" is
\* discarded with no effect: as long as it is the last message received, its
\* items are not iterated, last_u does not change and True is not returned.
C20_ForeignChannelHasNoEffect ==
    [][foreign_items' =>
        (pc' # "items" /\ last_u' = last_u /\ result' # "True")]_vars

\* A message of a foreign channel carrying items was received and dropped
\* while the cursor was set.
C20_Witness ==
    /\ round_no = 0 /\ foreign_items /\ pc = "loop" /\ result = "none"
    /\ last_u # None

---------------------------------------------------------------------------
\* The same loop fed with two frames that the transport received in one order
\* and that reach the consumer in any order; the second frame arrives as the
\* budget runs out.

ReorderFrames ==
    {m \in DataMsgs : m.result.present /\ Len(m.result.data) = 1
                      /\ m.result.channel \in {ExpectedCh, Book, TradeCh}}

RECURSIVE ScanItems(_, _, _)
\* for item in payload.get("data", []): ... ; the cursor after the items, or
\* "True" as soon as one satisfies the consistency rule.
ScanItems(items, cur, chs) ==
    IF items = <<>> THEN [found |-> FALSE, last_u |-> cur]
    ELSE IF ConsistencyRule(Head(items).pu, cur)
         THEN [found |-> TRUE, last_u |-> cur]
         ELSE ScanItems(Tail(items), AdvanceCursor(Head(items).u, cur), chs)

RECURSIVE FindConsistentDelta(_, _, _)
\* find_consistent_delta over frames that all arrive within the budget.
FindConsistentDelta(frames, cur, chs) ==
    IF frames = <<>> THEN "False"
    ELSE LET p == Payload(Head(frames))
             r == IF ChannelAccepted(p.channel, chs)
                  THEN ScanItems(p.data, cur, chs)
                  ELSE [found |-> FALSE, last_u |-> cur]
         IN IF r.found THEN "True"
            ELSE FindConsistentDelta(Tail(frames), r.last_u, chs)

ReorderInit ==
    /\ pc = "loop"
    /\ now = 0
    /\ deadline = MaxSeconds
    /\ channels = {ExpectedCh}
    /\ last_u \in UVals
    /\ chv = NoneS
    /\ data = <<>>
    /\ result = "none"
    /\ exc = "none"
    /\ HistInit(last_u)
    /\ ScenarioIdle
    /\ transport \in {<<a, b>> : a \in ReorderFrames, b \in ReorderFrames}
    /\ pending = {1, 2}
    /\ cur0 = last_u
    /\ AckIdle
    /\ ClientIdle
    /\ CallIdle

\* msg = await ws.recv(timeout=10), a frame arrives (in any order).
RecvFrame ==
    /\ pc = "loop"
    /\ now < deadline
    /\ \E i \in pending :
        /\ pending' = pending \ {i}
        /\ now' = (IF pending = {i} THEN deadline ELSE now + 5)
        /\ Deliver(transport[i])
        /\ foreign_items' = ForeignWithItems(transport[i], channels)
    /\ UNCHANGED <<deadline, channels, last_u, result, exc, transport, cur0>>
    /\ UNCHANGED <<seen, puSeen, recent_u, cursorMatch, hit, timedOut, raised_at>>
    /\ UNCHANGED <<scenVars, sideVars>>

ReorderNext == RecvFrame \/ ProcessItem \/ LoopExit

SpecReorder == ReorderInit /\ [][ReorderNext]_vars

\* C3 (as stated): True is returned only on an item, of a message whose
\* channel is accepted or "book", whose pu is present and equals the cursor
\* held at that moment; and a reordering of the frames never turns a False
\* result into True.
C3_NoFalsePositiveAndReorderOnlyLoses ==
    result = "True" =>
        /\ hit.found /\ hit.chan \in channels \cup {Book}
        /\ hit.pu # None /\ hit.pu = hit.cur
        /\ FindConsistentDelta(transport, cur0, channels) = "True"

\* C3 (amended): True is returned only on an item, of a message whose channel
\* is accepted or "book", whose pu is present and equals the cursor held at
\* that moment, in whatever order the frames arrive.
C3_NoFalsePositive ==
    result = "True" =>
        /\ hit.found /\ hit.chan \in channels \cup {Book}
        /\ hit.pu # None /\ hit.pu = hit.cur

\* Frames delivered out of order gave True where the transport's order gives
\* False.
C3_Witness ==
    /\ transport # <<>> /\ pending = {}
    /\ result = "True" /\ hit.found
    /\ FindConsistentDelta(transport, cur0, channels) = "False"

---------------------------------------------------------------------------
\* test_book_delta_sequence: _round_try twice at most, around the same waits
\* and the same delta loop.  Each round's request id is fresh (_now_ms()).

AssertSubscribeAck_NoBook(m, expected) ==
    IF m.method # "subscribe" THEN "not subscribe ack"
    ELSE IF m.code # 0 THEN "subscribe failed"
    ELSE IF ~(m.channel = expected \/ m.subscription = expected)
    THEN "unexpected ack"
    ELSE "ok"

\* assert_subscribe_ack: the three asserts in order; "ok" when none fails.
AssertSubscribeAck(m, expected) ==
    IF m.method # "subscribe" THEN "not subscribe ack"
    ELSE IF m.code # 0 THEN "subscribe failed"
    ELSE IF ~(m.channel = expected \/ m.subscription = expected \/ m.channel = Book)
    THEN "unexpected ack"
    ELSE "ok"

AckMatches_IdOnly(m, id) == m.id = id

\* ack.get("id") == req_id and ack.get("method") == "subscribe"
AckMatches(m, id) == m.id = id /\ m.method = "subscribe"

HasData_KeyOnly(p) == p.has_data

\* not ("data" not in payload or not payload.get("data"))
HasData(p) == p.has_data /\ p.data # <<>>

\* ch == expected_ch or ch == "book"
FirstDataChannelOk(c, expected) == c = expected \/ c = Book

RECURSIVE SeedCursor(_)
\* last_u = None; for item in data: if "u" in item: last_u = item["u"]; break
SeedCursor(items) ==
    IF items = <<>> THEN None
    ELSE IF Head(items).u # None THEN Head(items).u
    ELSE SeedCursor(Tail(items))

RoundEntryCursor_Carry(prev) == prev

\* A call of _round_try starts with no last_u of its own.
RoundEntryCursor(prev) == None

AfterRoundPc_RetryAlways(rnd, ok) ==
    IF rnd = 1 THEN "unsubscribe" ELSE IF ok = "True" THEN "passed" ELSE "xfailed"

\* ok = await _round_try(1); if ok: return; unsubscribe;
\* ok = await _round_try(2); if ok: return; pytest.xfail(...)
AfterRoundPc(rnd, ok) ==
    IF ok = "True" THEN "passed"
    ELSE IF rnd = 1 THEN "unsubscribe"
    ELSE "xfailed"

Init ==
    /\ pc = "subscribe"
    /\ now = 0
    /\ deadline = 0
    /\ channels = {ExpectedCh}
    /\ last_u = None
    /\ chv = NoneS
    /\ data = <<>>
    /\ result = "none"
    /\ exc = "none"
    /\ HistInit(None)
    /\ round_no = 1 /\ subs = 0 /\ unsubs = 0 /\ unsub_failed = FALSE
    /\ req_id = None /\ payload = NoPayload /\ results = <<>>
    /\ cursor_round = 0 /\ ack_round = 0 /\ ack_msg = NoMsg /\ ack_skipped = FALSE
    /\ fd_msg = NoMsg /\ fd_skipped = FALSE
    /\ ack_dropped = FALSE /\ ack_behind = None /\ fd_behind = None
    /\ ReorderIdle
    /\ AckIdle
    /\ ClientIdle
    /\ CallIdle

\* Messages the receive task can have queued by the time subscribe returns:
\* the acknowledgment of the request and a snapshot on the channel.
EarlyAck(id) ==
    [id |-> id, method |-> "subscribe", code |-> 0, channel |-> ExpectedCh,
     subscription |-> ExpectedCh, has_data |-> FALSE, data |-> <<>>,
     result |-> NoEnvelope]

EarlyData ==
    [id |-> -1, method |-> "subscribe", code |-> 0, channel |-> NoneS,
     subscription |-> NoneS, has_data |-> FALSE, data |-> <<>>,
     result |-> [present |-> TRUE, channel |-> ExpectedCh, has_data |-> TRUE,
                 data |-> <<[u |-> 1, pu |-> None]>>]]

MaxQueued == 2             \* messages queued when subscribe returns

EarlyMsgs(id) == {EarlyAck(id), EarlyData}

EarlyQueues(id) ==
    UNION {[1..n -> EarlyMsgs(id)] : n \in 0..MaxQueued}

\* req_id = await ws.subscribe([ch], extra_params=extra); while the send is
\* awaited the receive task may put messages on the queue.
Subscribe ==
    /\ pc = "subscribe"
    /\ subs' = subs + 1
    /\ req_id' = round_no
    /\ pc' = "wait_ack"
    /\ last_u' = RoundEntryCursor(last_u)
    /\ cursor_round' = (IF last_u' = None THEN 0 ELSE cursor_round)
    /\ result' = "none"
    /\ hit' = NoHit
    /\ cursorMatch' = FALSE
    /\ puSeen' = FALSE
    /\ foreign_items' = FALSE
    /\ ack_msg' = NoMsg /\ ack_skipped' = FALSE
    /\ fd_msg' = NoMsg /\ fd_skipped' = FALSE
    /\ ack_dropped' = FALSE /\ ack_behind' = None /\ fd_behind' = None
    /\ \E q \in EarlyQueues(round_no) :
        /\ Len(queue) + Len(q) <= MaxQueued
        /\ queue' = queue \o q
    /\ UNCHANGED <<now, deadline, channels, chv, data, exc>>
    /\ UNCHANGED <<seen, recent_u, timedOut, raised_at>>
    /\ UNCHANGED <<round_no, unsubs, unsub_failed, payload, results, ack_round>>
    /\ UNCHANGED <<reorderVars, sideRest>>

\* The payload of a message as the waits are described: the result envelope
\* if the message has one, else the message itself.
EnvelopeOrSelf(m) ==
    IF m.result.present
    THEN [channel |-> m.result.channel, has_data |-> m.result.has_data,
          data |-> m.result.data]
    ELSE [channel |-> m.channel, has_data |-> m.has_data, data |-> m.data]

\* A message on which wait_first_data is to return.
Qualifies(m, expected) ==
    LET p == EnvelopeOrSelf(m) IN
    /\ p.has_data /\ Len(p.data) > 0
    /\ p.channel \in {expected, Book}

\* wait_subscribe_ack: one received message.
WaitAckRecv ==
    /\ pc = "wait_ack"
    /\ \E qq \in QueueAtGet(queue) :
        LET m == Head(qq) IN
        /\ queue' = QueueGet(qq)
        /\ IF AckMatches(m, req_id)
           THEN /\ ack_msg' = m
                /\ ack_behind' = Behind(queue)
                /\ UNCHANGED ack_dropped
                /\ IF AssertSubscribeAck(m, ExpectedCh) = "ok"
                   THEN /\ pc' = "first_data"
                        /\ ack_round' = round_no
                        /\ UNCHANGED <<exc, raised_at>>
                   ELSE /\ pc' = "raised"
                        /\ exc' = "AssertionError"
                        /\ raised_at' = "wait_ack"
                        /\ UNCHANGED ack_round
                /\ UNCHANGED ack_skipped
           ELSE /\ ack_skipped' = (ack_skipped \/ (m.id = req_id /\ m.method = "subscribe"))
                /\ ack_dropped' = (ack_dropped \/ Qualifies(m, ExpectedCh))
                /\ UNCHANGED <<pc, exc, raised_at, ack_msg, ack_round, ack_behind>>
    /\ UNCHANGED <<now, deadline, channels, last_u, chv, data, result>>
    /\ UNCHANGED <<seen, puSeen, recent_u, cursorMatch, hit, foreign_items,
                   timedOut>>
    /\ UNCHANGED <<scenCtl, fd_msg, fd_skipped, fd_behind, cursor_round>>
    /\ UNCHANGED <<reorderVars, sideRest>>

\* wait_subscribe_ack: ws.recv(timeout=10) times out; TimeoutError propagates.
WaitAckTimeout ==
    /\ pc = "wait_ack"
    /\ queue = <<>>
    /\ pc' = "raised"
    /\ exc' = "TimeoutError"
    /\ raised_at' = "wait_ack"
    /\ timedOut' = TRUE
    /\ UNCHANGED <<now, deadline, channels, last_u, chv, data, result>>
    /\ UNCHANGED <<seen, puSeen, recent_u, cursorMatch, hit, foreign_items>>
    /\ UNCHANGED <<scenVars, reorderVars, sideVars>>

\* wait_first_data: one received message.
FirstDataRecv ==
    /\ pc = "first_data"
    /\ \E qq \in QueueAtGet(queue) :
        LET m == Head(qq)
            p == Payload(m) IN
        /\ queue' = QueueGet(qq)
        /\ IF HasData(p) /\ FirstDataChannelOk(p.channel, ExpectedCh)
           THEN /\ payload' = p
                /\ fd_msg' = m
                /\ fd_behind' = Behind(queue)
                /\ pc' = "seed"
                /\ UNCHANGED fd_skipped
           ELSE /\ fd_skipped' = (fd_skipped \/ Qualifies(m, ExpectedCh))
                /\ UNCHANGED <<payload, fd_msg, fd_behind, pc>>
    /\ UNCHANGED <<now, deadline, channels, last_u, chv, data, result, exc>>
    /\ UNCHANGED histVars
    /\ UNCHANGED <<round_no, subs, unsubs, unsub_failed, req_id, results>>
    /\ UNCHANGED <<ack_round, ack_msg, ack_skipped, ack_dropped, ack_behind>>
    /\ UNCHANGED <<cursor_round, reorderVars, sideRest>>

\* wait_first_data: ws.recv(timeout=15) times out; TimeoutError propagates.
FirstDataTimeout ==
    /\ pc = "first_data"
    /\ queue = <<>>
    /\ pc' = "raised"
    /\ exc' = "TimeoutError"
    /\ raised_at' = "first_data"
    /\ timedOut' = TRUE
    /\ UNCHANGED <<now, deadline, channels, last_u, chv, data, result>>
    /\ UNCHANGED <<seen, puSeen, recent_u, cursorMatch, hit, foreign_items>>
    /\ UNCHANGED <<scenVars, reorderVars, sideVars>>

\* last_u from the first payload; return False without one, else set the
\* deadline and enter the loop.
Seed ==
    /\ pc = "seed"
    /\ LET u0 == SeedCursor(payload.data) IN
        /\ last_u' = u0
        /\ cursor_round' = (IF u0 # None THEN round_no ELSE 0)
        /\ recent_u' = u0
        /\ seen' = (IF u0 # None THEN {u0} ELSE {})
        /\ IF u0 = None
           THEN /\ result' = "False"
                /\ pc' = "done"
                /\ UNCHANGED <<now, deadline>>
           ELSE /\ pc' = "loop"
                /\ now' = 0
                /\ deadline' = MaxSeconds
                /\ UNCHANGED result
    /\ payload' = NoPayload
    /\ ack_msg' = NoMsg
    /\ fd_msg' = NoMsg
    /\ ack_dropped' = FALSE /\ ack_behind' = None /\ fd_behind' = None
    /\ UNCHANGED <<channels, chv, data, exc>>
    /\ UNCHANGED <<puSeen, cursorMatch, hit, foreign_items, timedOut, raised_at>>
    /\ UNCHANGED <<round_no, subs, unsubs, unsub_failed, req_id, results>>
    /\ UNCHANGED <<ack_round, ack_skipped, fd_skipped, reorderVars, sideVars>>

\* _round_try returned: pass, retry once, or xfail.
AfterRound ==
    /\ pc = "done"
    /\ round_no >= 1
    /\ results' = Append(results, result)
    /\ pc' = AfterRoundPc(round_no, result)
    /\ now' = 0
    /\ deadline' = 0
    /\ UNCHANGED <<channels, last_u, chv, data, result, exc>>
    /\ UNCHANGED histVars
    /\ UNCHANGED <<round_no, subs, unsubs, unsub_failed, req_id, payload>>
    /\ UNCHANGED <<waitHist, cursor_round, reorderVars, sideVars>>

\* try: await ws.unsubscribe([ch]) except Exception: pass
Unsubscribe ==
    /\ pc = "unsubscribe"
    /\ unsubs' = unsubs + 1
    /\ \E failed \in BOOLEAN : unsub_failed' = failed
    /\ round_no' = round_no + 1
    /\ pc' = "subscribe"
    /\ UNCHANGED <<now, deadline, channels, last_u, chv, data, result, exc>>
    /\ UNCHANGED histVars
    /\ UNCHANGED <<subs, req_id, payload, results>>
    /\ UNCHANGED <<waitHist, cursor_round, reorderVars, sideVars>>

Next ==
    \/ Subscribe \/ WaitAckRecv \/ WaitAckTimeout
    \/ FirstDataRecv \/ FirstDataTimeout \/ Seed
    \/ RecvMsg \/ RecvTimeout \/ ProcessItem \/ LoopExit
    \/ AfterRound \/ Unsubscribe

Spec == Init /\ [][Next]_vars

---------------------------------------------------------------------------
\* Claims about test_book_delta_sequence and its waits (under Spec).

Ended == pc \in {"passed", "xfailed", "raised"}

\* C4: the scenario makes at most two attempts; the second starts only after
\* the first returned False and one unsubscribe was made (its error ignored);
\* an attempt that returned True is the last one and ends the scenario passed.
C4_AtMostTwoAttempts ==
    /\ subs <= 2 /\ unsubs <= 1
    /\ subs = 2 => (unsubs = 1 /\ Len(results) >= 1 /\ results[1] = "False")
    /\ \A i \in 1..Len(results) :
         results[i] = "True" => (i = Len(results) /\ pc = "passed" /\ subs = i)
    /\ pc = "passed" => (results # <<>> /\ results[Len(results)] = "True")

\* The second attempt passed after an unsubscribe that raised.
C4_Witness == pc = "passed" /\ subs = 2 /\ unsub_failed /\ Len(results) = 2

\* C5 (as stated): a scenario that got its acknowledgments and first payloads
\* and saw no delta with pu = last_u in either attempt, the silent stream
\* included, ends as xfail, never as an error.
C5_NoMatchIsInconclusive ==
    (/\ Ended
     /\ raised_at \notin {"wait_ack", "first_data"}
     /\ ~cursorMatch
     /\ \A i \in 1..Len(results) : results[i] # "True")
    => pc = "xfailed"

\* C6: the cursor is not carried over: the second attempt has no cursor until
\* it seeds one from the first payload after its own acknowledgment, and the
\* cursor a match is made against was assigned in the attempt that matches.
C6_CursorNotCarriedOver ==
    /\ (round_no = 2 /\ pc \in {"wait_ack", "first_data", "seed"}) => last_u = None
    /\ (round_no >= 1 /\ pc \in {"loop", "items"}) =>
           (last_u # None /\ cursor_round = round_no /\ ack_round = round_no)
    /\ (round_no >= 1 /\ hit.found) => hit.rnd = round_no

\* The second attempt matched against a cursor of its own after the first
\* attempt, which had a cursor too, ran out of budget.
C6_Witness ==
    /\ round_no = 2 /\ pc = "passed" /\ hit.found /\ hit.rnd = 2
    /\ results[1] = "False"

\* The validator as it is described: method, code, and one of three channel
\* matches.
AckPasses(m, expected) ==
    /\ m.method = "subscribe"
    /\ m.code = 0
    /\ \/ m.channel = expected
       \/ m.subscription = expected
       \/ m.channel = Book

\* C7: wait_subscribe_ack discards every message whose id or method differs,
\* decides on the first message matching both (returning iff it passes
\* assert_subscribe_ack, else failing with an assertion), and lets a receive
\* timeout before any match propagate.
C7_AckWaitDecidesOnFirstMatch ==
    /\ ~ack_skipped
    /\ ack_msg # NoMsg => (ack_msg.id = req_id /\ ack_msg.method = "subscribe")
    /\ pc = "first_data" => (ack_msg # NoMsg /\ AckPasses(ack_msg, ExpectedCh))
    /\ (pc = "raised" /\ raised_at = "wait_ack") =>
          \/ exc = "AssertionError" /\ ack_msg # NoMsg
                /\ ~AckPasses(ack_msg, ExpectedCh)
          \/ exc = "TimeoutError" /\ ack_msg = NoMsg

\* The matching message carried a failure code and the wait failed.
C7_Witness ==
    /\ pc = "raised" /\ raised_at = "wait_ack" /\ exc = "AssertionError"
    /\ ack_msg.id = req_id /\ ack_msg.code = 1

\* C8: wait_first_data returns on the first message whose payload (the result
\* envelope if present, else the message) has a non-empty data list and a
\* channel equal to expected_ch or "book"; nothing it skipped was one.
C8_FirstDataIsFirstQualifying ==
    /\ ~fd_skipped
    /\ pc = "seed" =>
          /\ Qualifies(fd_msg, ExpectedCh)
          /\ payload = EnvelopeOrSelf(fd_msg)

\* A wrapped payload on the generic channel was returned.
C8_Witness ==
    /\ pc = "seed" /\ fd_msg.result.present /\ payload.channel = Book
    /\ Len(payload.data) = 2

---------------------------------------------------------------------------
\* assert_subscribe_ack applied to one message.

Book50 == "book.BTCUSD-PERP.50"

AckShapes ==
    {[id |-> 1, method |-> m, code |-> k, channel |-> c, subscription |-> s,
      has_data |-> FALSE, data |-> <<>>, result |-> NoEnvelope] :
        m \in {"subscribe", "unsubscribe", NoneS}, k \in {0, 1, None},
        c \in {ExpectedCh, Book50, Book, TradeCh, NoneS},
        s \in {ExpectedCh, Book50, NoneS}}

AckInit ==
    /\ pc = "call" /\ now = 0 /\ deadline = 0 /\ channels = {}
    /\ last_u = None /\ chv = NoneS /\ data = <<>>
    /\ result = "none" /\ exc = "none"
    /\ HistInit(None)
    /\ ScenarioIdle
    /\ ReorderIdle
    /\ ClientIdle
    /\ CallIdle
    /\ msg \in AckShapes
    /\ expected_ch \in {ExpectedCh, Book50}
    /\ ack_outcome = "pending"

\* assert_subscribe_ack(msg, expected_ch)
CallAssertSubscribeAck ==
    /\ pc = "call"
    /\ ack_outcome' = AssertSubscribeAck(msg, expected_ch)
    /\ pc' = (IF ack_outcome' = "ok" THEN "done" ELSE "raised")
    /\ exc' = (IF ack_outcome' = "ok" THEN "none" ELSE "AssertionError")
    /\ UNCHANGED <<now, deadline, channels, last_u, chv, data, result>>
    /\ UNCHANGED <<histVars, scenVars, reorderVars, clientVars, callVars>>
    /\ UNCHANGED <<msg, expected_ch>>

AckNext == CallAssertSubscribeAck

SpecAck == AckInit /\ [][AckNext]_vars

\* C9: assert_subscribe_ack(msg, expected) passes iff method = "subscribe",
\* code = 0 and (channel = expected or subscription = expected or channel =
\* "book"); for expected "book.BTCUSD-PERP.10" the scoped and the generic
\* acknowledgment both pass and channel "trade.BTCUSD-PERP" does not.
C9_AckPassesIff ==
    ack_outcome # "pending" =>
        /\ (ack_outcome = "ok") <=>
              (/\ msg.method = "subscribe"
               /\ msg.code = 0
               /\ \/ msg.channel = expected_ch
                  \/ msg.subscription = expected_ch
                  \/ msg.channel = "book")
        /\ (/\ expected_ch = "book.BTCUSD-PERP.10"
            /\ msg.method = "subscribe" /\ msg.code = 0) =>
              /\ msg.channel = "book.BTCUSD-PERP.10" => ack_outcome = "ok"
              /\ (msg.channel = "book" /\ msg.subscription = "book.BTCUSD-PERP.10")
                    => ack_outcome = "ok"
              /\ (msg.channel = "trade.BTCUSD-PERP" /\ msg.subscription = NoneS)
                    => ack_outcome = "unexpected ack"

\* The generic acknowledgment of another subscription was accepted.
C9_Witness ==
    /\ ack_outcome = "ok" /\ msg.channel = "book"
    /\ msg.subscription # expected_ch

---------------------------------------------------------------------------
\* WSClient: the background task _recv_loop (sole producer) and one consumer
\* calling recv(timeout) share self._msg_queue.

MaxFrames == 3             \* frames the transport yields in one run
MaxTimeouts == 2           \* timed-out recv calls counted in one run

\* self._msg_queue = asyncio.Queue(): maxsize 0, which means no limit.
QueueMaxsize == 0

Heartbeat == "public/heartbeat"

ClientFrames ==
    {[method |-> Heartbeat, id |-> i] : i \in {1, 2}}
    \cup {[method |-> "subscribe", id |-> i] : i \in {-1, 1, 2}}

\* recv(self, timeout: float | None = None): no timeout, or the callers' 10 s.
Timeouts == {None, RecvTimeoutSecs}

\* What ends _recv_loop other than a cancellation: ws.recv() raising on a
\* broken connection, json.loads raising on an undecodable frame.
TransportErrors == {"ConnectionClosed", "JSONDecodeError"}

RECURSIVE NonHeartbeat(_)
\* The frames of a sequence that are not server heartbeats, in order.
NonHeartbeat(fs) ==
    IF fs = <<>> THEN <<>>
    ELSE IF Head(fs).method = Heartbeat THEN NonHeartbeat(Tail(fs))
    ELSE <<Head(fs)>> \o NonHeartbeat(Tail(fs))

Enqueue_Front(q, f) == <<f>> \o q

\* await self._msg_queue.put(msg) on the unbounded asyncio.Queue
Enqueue(q, f) == Append(q, f)

IsHeartbeat_Never(f) == FALSE

\* if msg.get("method") == "public/heartbeat"
IsHeartbeat(f) == f.method = Heartbeat

PutBlocks_OneSlot(q) == Len(q) >= 1

\* Queue.put suspends the caller while the queue is full; a queue of
\* maxsize 0 is never full.
PutBlocks(q) == QueueMaxsize > 0 /\ Len(q) >= QueueMaxsize

\* The queue after get() took its head: a put() that was suspended for want
\* of room (its message is the last frame received) then completes.
AfterGet(q, task, frames) ==
    IF task = "put" THEN Enqueue(Tail(q), frames[Len(frames)]) ELSE Tail(q)

\* The receive task after a get(): a suspended put() has completed.
TaskAfterGet(task) == IF task = "put" THEN "recv" ELSE task

\* except asyncio.CancelledError: pass -- the only exception _recv_loop
\* handles; any other one ends the task and stays stored in it.
LoopCatches(e) == e = "CancelledError"

\* The state of the task after exception e was thrown into _recv_loop.
TaskAfter(e) == IF LoopCatches(e) THEN "cancelled" ELSE "failed"

\* The exception a finished task keeps: none when it was caught.
TaskStores(e) == IF LoopCatches(e) THEN "none" ELSE e

\* asyncio.wait_for(get(), timeout=t): the timer exists only for a number.
HasTimer(t) == t # None

ClientInit ==
    /\ pc = "client" /\ now = 0 /\ deadline = 0 /\ channels = {}
    /\ last_u = None /\ chv = NoneS /\ data = <<>>
    /\ result = "none" /\ exc = "none"
    /\ HistInit(None)
    /\ ScenarioIdle
    /\ ReorderIdle
    /\ AckIdle
    /\ CallIdle
    /\ running = TRUE /\ rl_pc = "recv" /\ hb_id = None
    /\ queue = <<>> /\ sent = <<>> /\ received = <<>> /\ delivered = <<>>
    /\ c_pc = "idle" /\ c_timeouts = 0
    /\ closed = FALSE /\ task_exc = "none"
    /\ c_timeout = None /\ c_last = "none" /\ c_last_failed = FALSE

nonClient == <<deltaVars, histVars, scenVars, reorderVars, ackVars, callVars>>
loopRest == <<running, hb_id, sent, received, closed, task_exc>>
loopVars == <<rl_pc, loopRest>>
consumerVars == <<delivered, c_pc, c_timeouts, c_timeout, c_last, c_last_failed>>

\* raw = await self.ws.recv(); msg = json.loads(raw); a heartbeat is answered,
\* any other message is put on the queue (at once, unless put has to wait).
LoopRecv ==
    /\ running /\ rl_pc = "recv"
    /\ Len(received) < MaxFrames
    /\ \E f \in ClientFrames :
        /\ received' = Append(received, f)
        /\ IF IsHeartbeat(f)
           THEN rl_pc' = "respond" /\ hb_id' = f.id /\ UNCHANGED queue
           ELSE IF PutBlocks(queue)
           THEN rl_pc' = "put" /\ UNCHANGED <<queue, hb_id>>
           ELSE rl_pc' = "recv" /\ queue' = Enqueue(queue, f) /\ UNCHANGED hb_id
    /\ UNCHANGED <<running, sent, closed, task_exc, consumerVars, nonClient>>

\* await self.respond_heartbeat(msg.get("id")) completes its ws.send
LoopRespond ==
    /\ rl_pc = "respond"
    /\ sent' = Append(sent, [method |-> "public/respond-heartbeat", id |-> hb_id])
    /\ rl_pc' = "recv"
    /\ hb_id' = None
    /\ UNCHANGED <<running, queue, received, closed, task_exc, consumerVars,
                   nonClient>>

\* ws.recv() or ws.send() raises on a broken connection, or json.loads raises
\* on an undecodable frame: the exception leaves _recv_loop, the task ends
\* and keeps it; nothing is put on the queue and no consumer is told.
LoopFail ==
    /\ rl_pc \in {"recv", "respond"}
    /\ \E e \in TransportErrors :
        /\ e = "JSONDecodeError" => rl_pc = "recv"
        /\ rl_pc' = TaskAfter(e)
        /\ task_exc' = TaskStores(e)
    /\ hb_id' = None
    /\ UNCHANGED <<running, queue, sent, received, closed, consumerVars, nonClient>>

\* __aexit__: self._running = False; self._recv_task.cancel(); ws.close().
\* The cancellation is thrown into the task at the await it is suspended on;
\* a task that already ended is left as it is.  The queue is not touched.
Close ==
    /\ ~closed
    /\ closed' = TRUE
    /\ running' = FALSE
    /\ IF rl_pc \in {"recv", "respond", "put"}
       THEN /\ rl_pc' = TaskAfter("CancelledError")
            /\ task_exc' = TaskStores("CancelledError")
            /\ hb_id' = None
       ELSE UNCHANGED <<rl_pc, task_exc, hb_id>>
    /\ UNCHANGED <<queue, sent, received, consumerVars, nonClient>>

\* recv(timeout): asyncio.wait_for(self._msg_queue.get(), timeout) is entered;
\* with a message queued get() returns it at once, else the call waits.
ConsumerCall ==
    /\ c_pc = "idle"
    /\ IF queue # <<>>
       THEN /\ delivered' = Append(delivered, Head(queue))
            /\ queue' = AfterGet(queue, rl_pc, received)
            /\ rl_pc' = TaskAfterGet(rl_pc)
            /\ c_last' = "message"
            /\ c_last_failed' = (rl_pc = "failed")
            /\ UNCHANGED <<c_pc, c_timeout>>
       ELSE /\ c_timeouts < MaxTimeouts
            /\ c_pc' = "waiting"
            /\ \E t \in Timeouts : c_timeout' = t
            /\ UNCHANGED <<delivered, queue, rl_pc, c_last, c_last_failed>>
    /\ UNCHANGED <<c_timeouts, loopRest, nonClient>>

\* The waiting get() is woken by a put and returns the head of the queue.
ConsumerWake ==
    /\ c_pc = "waiting"
    /\ queue # <<>>
    /\ delivered' = Append(delivered, Head(queue))
    /\ queue' = AfterGet(queue, rl_pc, received)
    /\ rl_pc' = TaskAfterGet(rl_pc)
    /\ c_pc' = "idle"
    /\ c_timeout' = None
    /\ c_last' = "message"
    /\ c_last_failed' = (rl_pc = "failed")
    /\ UNCHANGED <<c_timeouts, loopRest, nonClient>>

\* The timeout of wait_for fires first: get() is cancelled, takes nothing
\* from the queue, and recv raises TimeoutError.
ConsumerTimeout ==
    /\ c_pc = "waiting"
    /\ HasTimer(c_timeout)
    /\ c_timeouts' = c_timeouts + 1
    /\ c_pc' = "idle"
    /\ c_timeout' = None
    /\ c_last' = "TimeoutError"
    /\ c_last_failed' = (rl_pc = "failed")
    /\ UNCHANGED <<queue, delivered, loopVars, nonClient>>

ClientNext ==
    \/ LoopRecv \/ LoopRespond \/ LoopFail \/ Close
    \/ ConsumerCall \/ ConsumerWake \/ ConsumerTimeout

SpecClient == ClientInit /\ [][ClientNext]_vars

\* The event loop runs every ready callback and every due timer: a woken
\* get() and an expired wait_for timer are eventually served.
SpecClientFair ==
    SpecClient /\ WF_vars(ConsumerWake) /\ WF_vars(ConsumerTimeout)

\* C10: whatever the interleaving, the messages returned by successful recv
\* calls, followed by those still queued, are exactly the non-heartbeat frames
\* in the order the transport received them: none reordered, duplicated or
\* lost, recv timeouts in between included.
C10_DeliveredInTransportOrder ==
    delivered \o queue = NonHeartbeat(received)

\* Two different messages were delivered around a heartbeat, with a recv call
\* that timed out in between.
C10_Witness ==
    /\ Len(delivered) = 2 /\ delivered[1] # delivered[2]
    /\ c_timeouts >= 1
    /\ Len(received) = 3 /\ received[2].method = Heartbeat

\* C11: closing the connection cancels the background receive task, and no
\* consumer wait hangs after the close: a recv call that is waiting once the
\* connection is closed (pending at the close or issued after it) eventually
\* ends.
C11_NoWaitHangsAfterClose ==
    (closed /\ c_pc = "waiting") ~> (c_pc = "idle")

\* C12: a failure of the connection's receive reaches the consumer: a recv
\* call that ends after the receive task failed, without a message to return,
\* ends with the task's transport error and not with a liveness timeout.
C12_TransportErrorReachesConsumer ==
    (rl_pc = "failed" /\ c_last_failed /\ c_last # "message") => c_last = task_exc

---------------------------------------------------------------------------
\* tests/conftest.py: the environment resolver, fixture app_cfg.
\* Option and INI values are strings; an option that was not given and an
\* INI key that is absent are NoneS.

REST_ENDPOINTS ==
    [prod |-> "https://api.crypto.com/exchange/v1/",
     uat |-> "https://uat-api.3ona.co/exchange/v1/"]
WS_MARKET_ENDPOINTS ==
    [prod |-> "wss://stream.crypto.com/exchange/v1/market",
     uat |-> "wss://uat-stream.3ona.co/exchange/v1/market"]

\* pytestconfig.getoption(...) for --env, --instrument, --depth, --book-type,
\* --book-freq and --server.
CliOptions ==
    [env : {NoneS, "UAT", "dev"},
     instrument : {NoneS, "", "SOLUSD-PERP"},
     depth : {NoneS, "150", "abc"},
     book_type : {NoneS, "snapshot", "BOTH"},
     book_freq : {NoneS, "100"},
     server : {NoneS, "wss://mock", "http://mock", "ftp://mock"}]

\* The [env] section of run.ini.
IniFiles ==
    [env : {NoneS, "uat"},
     instrument_name : {NoneS, "ETHUSD-PERP"},
     instrument : {NoneS},
     symbol : {NoneS, "XRPUSD-PERP"},
     depth : {NoneS, "10"},
     book_subscription_type : {NoneS, "SNAPSHOT"},
     book_update_frequency : {NoneS, "20"}]

\* str.strip(), str.lower(), str.upper() on the strings of the model.
Strip(s) == s
Lower(s) == IF s = "UAT" THEN "uat" ELSE s
Upper(s) == IF s = "snapshot" THEN "SNAPSHOT" ELSE s

\* int(s) for the strings it accepts; str(50) = "50", str(10) = "10".
IntOf == ("9" :> 9) @@ ("10" :> 10) @@ ("20" :> 20) @@ ("50" :> 50) @@ ("100" :> 100)
         @@ ("150" :> 150)

\* bool(v) for an optional string: None and "" are false.
IsTruthy(v) == v # NoneS /\ v # ""

\* a or b
PyOr(a, b) == IF IsTruthy(a) THEN a ELSE b

\* get_config(path): a ConfigParser that has read the file.
GetConfig(file) ==
    [kind |-> "ConfigParser",
     sections |-> IF \E k \in DOMAIN file : file[k] # NoneS THEN {"env"} ELSE {},
     items |-> file]

\* CONFIGS = {"RUN_INI": lambda: get_config(RUN_INI_PATH)}; CONFIGS.get(name)
\* is the entry itself: the function, which nothing calls.
ConfigsGet(name, file) ==
    IF name = "RUN_INI"
    THEN [kind |-> "function", returns |-> GetConfig(file)]
    ELSE [kind |-> "NoneType"]

\* _cfg_get(cfg, key, default)
CfgGet(cfg, key, default) ==
    IF cfg.kind = "NoneType" THEN default
    ELSE IF cfg.kind \in {"dict", "SectionProxy"}
    THEN (IF cfg.items[key] # NoneS THEN cfg.items[key] ELSE default)
    ELSE IF cfg.kind = "ConfigParser"
    THEN (IF "env" \in cfg.sections
          THEN (IF cfg.items[key] # NoneS THEN cfg.items[key] ELSE default)
          ELSE default)
    ELSE default

\* _pick_instrument(cfg)
PickInstrument(cfg) ==
    LET a == CfgGet(cfg, "instrument_name", NoneS)
        b == CfgGet(cfg, "instrument", NoneS)
        c == CfgGet(cfg, "symbol", NoneS)
    IN IF IsTruthy(a) THEN Strip(a)
       ELSE IF IsTruthy(b) THEN Strip(b)
       ELSE IF IsTruthy(c) THEN Strip(c)
       ELSE "BTCUSD-PERP"

\* _to_int(val, default)
ToInt(val, default) ==
    IF Strip(val) \in DOMAIN IntOf THEN IntOf[Strip(val)] ELSE default

\* _sanitize_env(val): "ValueError" stands for the raise.
SanitizeEnv(val) ==
    LET env == IF val # NoneS THEN Lower(Strip(val)) ELSE "prod" IN
    IF env \in DOMAIN REST_ENDPOINTS THEN env ELSE "ValueError"

\* _sanitize_book_type(val)
SanitizeBookType(val) ==
    LET x == IF val # NoneS THEN Upper(Strip(val)) ELSE "SNAPSHOT_AND_UPDATE" IN
    IF x \in {"SNAPSHOT", "SNAPSHOT_AND_UPDATE"} THEN x ELSE "SNAPSHOT_AND_UPDATE"

\* s.startswith(("ws://", "wss://")), s.startswith(("http://", "https://"))
IsWsUrl(s) == s \in {"wss://mock"}
IsHttpUrl(s) == s \in {"http://mock"}
\* if not s.endswith("/"): s += "/"
WithSlash(s) == IF s = "http://mock" THEN "http://mock/" ELSE s

\* app_cfg(pytestconfig): the resolved record, or the raise of _sanitize_env.
AppCfg(cli, file) ==
    LET ini_cfg == ConfigsGet("RUN_INI", file)
        env_val == SanitizeEnv(PyOr(cli.env, CfgGet(ini_cfg, "env", "prod")))
        instr_val == PyOr(cli.instrument, PickInstrument(ini_cfg))
        depth_val == ToInt(PyOr(cli.depth, CfgGet(ini_cfg, "depth", "50")), 50)
        btype_val == SanitizeBookType(
                         PyOr(cli.book_type,
                              CfgGet(ini_cfg, "book_subscription_type",
                                     "SNAPSHOT_AND_UPDATE")))
        bfreq_val == ToInt(PyOr(cli.book_freq,
                                CfgGet(ini_cfg, "book_update_frequency", "10")), 10)
        s == IF IsTruthy(cli.server) THEN Strip(cli.server) ELSE NoneS
    IN IF env_val = "ValueError"
       THEN [exc |-> "ValueError", cfg |-> NoRet]
       ELSE [exc |-> "none",
             cfg |-> [env |-> env_val,
                      instrument_name |-> PyOr(instr_val, "BTCUSD-PERP"),
                      depth |-> depth_val,
                      book_subscription_type |-> btype_val,
                      book_update_frequency |-> bfreq_val,
                      rest_base |-> IF IsTruthy(s) /\ ~IsWsUrl(s)
                                       /\ IsHttpUrl(s)
                                    THEN WithSlash(s)
                                    ELSE REST_ENDPOINTS[env_val],
                      ws_market_url |-> IF IsTruthy(s) /\ IsWsUrl(s)
                                        THEN s
                                        ELSE WS_MARKET_ENDPOINTS[env_val]]]

\* A stateless helper is about to be called: everything else is idle.
HelperInit ==
    /\ pc = "call" /\ now = 0 /\ deadline = 0 /\ channels = {}
    /\ last_u = None /\ chv = NoneS /\ data = <<>>
    /\ result = "none" /\ exc = "none"
    /\ HistInit(None)
    /\ ScenarioIdle
    /\ ReorderIdle
    /\ AckIdle
    /\ ClientIdle
    /\ fn = "none" /\ ret = NoRet

\* What a call leaves alone.
helperFrame == <<now, deadline, channels, last_u, chv, data, result, histVars,
                 scenVars, reorderVars, ackVars, clientVars>>

\* The call returned value v, or raised e (and returned nothing).
Returns(name, out) ==
    /\ fn' = name
    /\ exc' = out.exc
    /\ ret' = out.val
    /\ pc' = (IF out.exc = "none" THEN "done" ELSE "raised")
    /\ UNCHANGED <<args, helperFrame>>

CfgInit == HelperInit /\ args \in [cli : CliOptions, ini : IniFiles]

\* pytest builds the session fixture app_cfg.
CallAppCfg ==
    /\ pc = "call"
    /\ LET out == AppCfg(args.cli, args.ini) IN
        Returns("app_cfg", [exc |-> out.exc, val |-> out.cfg])

CfgNext == CallAppCfg

SpecCfg == CfgInit /\ [][CfgNext]_vars

\* C13: when no CLI option is given for a key and run.ini supplies a value
\* for it, the resolved record holds the INI value (for env, instrument_name,
\* depth, book_subscription_type and book_update_frequency).
C13_IniValueUsedWithoutCliOption ==
    (fn = "app_cfg" /\ exc = "none") =>
        /\ (args.cli.env = NoneS /\ args.ini.env = "uat") => ret.env = "uat"
        /\ (args.cli.instrument = NoneS /\ args.ini.instrument_name = "ETHUSD-PERP")
               => ret.instrument_name = "ETHUSD-PERP"
        /\ (args.cli.depth = NoneS /\ args.ini.depth = "10") => ret.depth = 10
        /\ (args.cli.book_type = NoneS
            /\ args.ini.book_subscription_type = "SNAPSHOT")
               => ret.book_subscription_type = "SNAPSHOT"
        /\ (args.cli.book_freq = NoneS /\ args.ini.book_update_frequency = "20")
               => ret.book_update_frequency = 20

---------------------------------------------------------------------------
\* resources/functions/candlestick_utils.py: extract_result(body).
\* A decoded JSON value is a record: its Python type, a tag standing for the
\* content of an object or scalar, and the elements of a list.

MaxResultLen == 3          \* longest "result" list

JDict(tag) == [type |-> "dict", tag |-> tag, items |-> <<>>]
JStr(tag) == [type |-> "str", tag |-> tag, items |-> <<>>]
JInt(tag) == [type |-> "int", tag |-> tag, items |-> <<>>]
JNull == [type |-> "NoneType", tag |-> "null", items |-> <<>>]
JList(xs) == [type |-> "list", tag |-> "", items |-> xs]

JElems == {JDict("data=[]"), JDict("interval=M5"), JStr("x"), JNull}
JLists == {JList(xs) : xs \in UNION {[1..n -> JElems] : n \in 0..MaxResultLen}}

\* The response bodies: "result" missing, or holding any value above.
Bodies ==
    {[has_result |-> FALSE, result |-> JNull]}
    \cup {[has_result |-> TRUE, result |-> r] :
            r \in JLists \cup JElems \cup {JInt("7")}}

\* isinstance(r, list), isinstance(r, dict)
IsInstance(r, type) == r.type = type

ExtractResult_NoEmptyCheck(body) ==
    LET r == IF body.has_result THEN body.result ELSE JNull IN
    IF IsInstance(r, "list")
    THEN [exc |-> "none", val |-> IF r.items # <<>> THEN r.items[1] ELSE r]
    ELSE IF IsInstance(r, "dict") THEN [exc |-> "none", val |-> r]
    ELSE [exc |-> "AssertionError", val |-> NoRet]

\* extract_result(body)
ExtractResult(body) ==
    LET r == IF body.has_result THEN body.result ELSE JNull IN
    IF IsInstance(r, "list")
    THEN (IF Len(r.items) > 0
          THEN [exc |-> "none", val |-> r.items[1]]
          ELSE [exc |-> "AssertionError", val |-> NoRet])
    ELSE IF IsInstance(r, "dict") THEN [exc |-> "none", val |-> r]
    ELSE [exc |-> "AssertionError", val |-> NoRet]

ExtractInit == HelperInit /\ args \in [body : Bodies]

\* result = extract_result(body)
CallExtractResult ==
    /\ pc = "call"
    /\ Returns("extract_result", ExtractResult(args.body))

ExtractNext == CallExtractResult

SpecExtract == ExtractInit /\ [][ExtractNext]_vars

\* C14: extract_result returns the first element of a non-empty "result"
\* list, the "result" object itself when it is a single object, and fails
\* with an assertion error in every other case: empty list, string, number,
\* null, or no "result" at all.
C14_ExtractResultCases ==
    fn = "extract_result" =>
        LET b == args.body IN
        IF b.has_result /\ b.result.type = "list" /\ b.result.items # <<>>
        THEN exc = "none" /\ ret = Head(b.result.items)
        ELSE IF b.has_result /\ b.result.type = "dict"
        THEN exc = "none" /\ ret = b.result
        ELSE exc = "AssertionError"

\* result = [{data: []}, {interval: M5}] returned its first element.
C14_Witness ==
    /\ fn = "extract_result" /\ exc = "none"
    /\ args.body.result = JList(<<JDict("data=[]"), JDict("interval=M5")>>)
    /\ ret = JDict("data=[]")

---------------------------------------------------------------------------
\* candlestick_utils.py: norm_tf(tf) over the alias table ALIASES, which is
\* loaded from the test data and is an input here.

TfCodes == {"5m", "M5", "H1"}

\* Every table that maps some of the codes to codes.
AliasTables == UNION {[D -> TfCodes] : D \in SUBSET TfCodes}

NormTf_NoPassThrough(ALIASES, tf) ==
    IF tf \in DOMAIN ALIASES THEN ALIASES[tf] ELSE "M1"

\* norm_tf(tf): ALIASES.get(tf, tf)
NormTf(ALIASES, tf) ==
    IF tf \in DOMAIN ALIASES THEN ALIASES[tf] ELSE tf

NormInit ==
    HelperInit /\ args \in [aliases : AliasTables, tf : TfCodes \cup {"1D"}]

\* timeframe = norm_tf(tf_str), then norm_tf applied to what it returned;
\* ret lists the successive values.
CallNormTf ==
    /\ pc = "call"
    /\ Len(ret) < 2
    /\ LET x == IF ret = <<>> THEN args.tf ELSE ret[Len(ret)] IN
        ret' = Append(ret, NormTf(args.aliases, x))
    /\ fn' = "norm_tf"
    /\ pc' = (IF Len(ret) = 1 THEN "done" ELSE "call")
    /\ UNCHANGED <<exc, args, helperFrame>>

NormNext == CallNormTf

SpecNorm == NormInit /\ [][NormNext]_vars

\* C15 as stated: for every alias table and every input, normalising twice
\* gives what normalising once gives.
C15_NormTfIdempotent ==
    (fn = "norm_tf" /\ Len(ret) = 2) => ret[2] = ret[1]

\* The table maps to canonical codes: no value of it is an alias of
\* something else.
MapsToCanonical(t) ==
    \A k \in DOMAIN t : t[k] \in DOMAIN t => t[t[k]] = t[k]

\* C15, amended: an input with no alias entry passes through unchanged, and
\* normalising twice gives what normalising once gives whenever the table
\* maps to canonical codes (no value of the table is itself an alias of a
\* different code).
C15_NormTfIdempotentOnCanonicalTables ==
    fn = "norm_tf" =>
        /\ args.tf \notin DOMAIN args.aliases => ret[1] = args.tf
        /\ (Len(ret) = 2 /\ MapsToCanonical(args.aliases)) => ret[2] = ret[1]

\* An alias was rewritten to its canonical code, which normalising again
\* left unchanged.
C15_Witness ==
    /\ fn = "norm_tf" /\ Len(ret) = 2
    /\ MapsToCanonical(args.aliases)
    /\ args.tf = "5m" /\ ret = <<"M5", "M5">>

---------------------------------------------------------------------------
\* candlestick_utils.py: assert_sorted_by_t(data).  A candle is a record
\* whose "t" is a decimal string; int(x["t"]) reads it through IntOf.

MaxCandles == 3            \* longest candle sequence

CandleTs == {"9", "10", "20", "100"}
Candles == {[t |-> s] : s \in CandleTs}
CandleSeqs == UNION {[1..n -> Candles] : n \in 0..MaxCandles}

\* ts = [int(x["t"]) for x in data]
TsOf(cs) == [i \in 1..Len(cs) |-> IntOf[cs[i].t]]

RECURSIVE Insert(_, _)
\* x put before the first element of the ascending list xs that exceeds it.
Insert(x, xs) ==
    IF xs = <<>> THEN <<x>>
    ELSE IF x < Head(xs) THEN <<x>> \o xs
    ELSE <<Head(xs)>> \o Insert(x, Tail(xs))

RECURSIVE Sorted(_)
\* sorted(ts): the elements of ts in ascending order.
Sorted(ts) ==
    IF ts = <<>> THEN <<>>
    ELSE Insert(ts[Len(ts)], Sorted(SubSeq(ts, 1, Len(ts) - 1)))

AssertSortedByT_Strict(cs) ==
    LET ts == TsOf(cs) IN
    IF \A i \in 1..(Len(ts) - 1) : ts[i] < ts[i + 1]
    THEN [exc |-> "none", val |-> NoRet]
    ELSE [exc |-> "AssertionError", val |-> NoRet]

\* assert_sorted_by_t(data): assert ts == sorted(ts)
AssertSortedByT(cs) ==
    LET ts == TsOf(cs) IN
    IF ts = Sorted(ts)
    THEN [exc |-> "none", val |-> NoRet]
    ELSE [exc |-> "AssertionError", val |-> NoRet]

SortedInit == HelperInit /\ args \in [data : CandleSeqs]

\* assert_sorted_by_t(data)
CallAssertSortedByT ==
    /\ pc = "call"
    /\ Returns("assert_sorted_by_t", AssertSortedByT(args.data))

SortedNext == CallAssertSortedByT

SpecSorted == SortedInit /\ [][SortedNext]_vars

\* The number a "t" field denotes.
TimeOf(c) ==
    CASE c.t = "9" -> 9 [] c.t = "10" -> 10 [] c.t = "20" -> 20
      [] c.t = "100" -> 100

\* C16: assert_sorted_by_t passes if and only if the t fields are
\* non-decreasing, t[i] <= t[i+1] for every adjacent pair (equal timestamps
\* allowed); so it passes on the empty and the one-element sequence and
\* fails on a sequence with an adjacent descent.
C16_PassesIffNonDecreasing ==
    fn = "assert_sorted_by_t" =>
        (exc = "none" <=>
            \A i \in 1..(Len(args.data) - 1) :
                TimeOf(args.data[i]) <= TimeOf(args.data[i + 1]))

\* A sequence with two equal timestamps passed.
C16_Witness ==
    /\ fn = "assert_sorted_by_t" /\ exc = "none"
    /\ args.data = <<[t |-> "9"], [t |-> "10"], [t |-> "10"]>>

---------------------------------------------------------------------------
\* candlestick_utils.py: interval_ms and assert_time_in_window_with_alignment,
\* as test_time_window_recent_hour uses them.  Times are in milliseconds.

\* _INTERVAL_MS.get(timeframe_norm, 60 * 1000)
IntervalMs(timeframe_norm) ==
    CASE timeframe_norm = "M1" -> 60 * 1000
      [] timeframe_norm = "M5" -> 5 * 60 * 1000
      [] timeframe_norm = "M15" -> 15 * 60 * 1000
      [] timeframe_norm = "M30" -> 30 * 60 * 1000
      [] timeframe_norm = "H1" -> 60 * 60 * 1000
      [] timeframe_norm = "H2" -> 2 * 60 * 60 * 1000
      [] timeframe_norm = "H4" -> 4 * 60 * 60 * 1000
      [] timeframe_norm = "H12" -> 12 * 60 * 60 * 1000
      [] timeframe_norm = "D1" -> 24 * 60 * 60 * 1000
      [] timeframe_norm = "D7" -> 7 * 24 * 60 * 60 * 1000
      [] timeframe_norm = "D14" -> 14 * 24 * 60 * 60 * 1000
      [] timeframe_norm = "1M" -> 30 * 24 * 60 * 60 * 1000
      [] OTHER -> 60 * 1000

\* Timeframes of the runs: three canonical codes and an unmapped one.  "1M"
\* is left out, its length exceeding the integers of the model checker.
WindowTfs == {"M1", "M5", "H1", "5m"}

\* Window bounds, the second window being inverted by 100 s.
WindowStart == 4000000
WindowEnds == {WindowStart + 60 * 60 * 1000, WindowStart - 100000}

\* Candle open times: around start_ts minus each interval, around start_ts
\* and around end_ts.
WindowTs(start_ts, end_ts) ==
    {start_ts - d : d \in {3600001, 3600000, 300001, 300000, 60001, 60000,
                           59999, 1, 0}}
    \cup {end_ts - 1, end_ts, end_ts + 1}

AssertTimeInWindowWithAlignment_NoSlack(t_ms, start_ts, end_ts, tf_ms) ==
    IF start_ts <= t_ms /\ t_ms <= end_ts
    THEN [exc |-> "none", val |-> [tf_ms |-> tf_ms]]
    ELSE [exc |-> "AssertionError", val |-> [tf_ms |-> tf_ms]]

\* assert_time_in_window_with_alignment(t_ms, start_ts, end_ts, tf_ms); the
\* interval it was given is kept beside the outcome.
AssertTimeInWindowWithAlignment(t_ms, start_ts, end_ts, tf_ms) ==
    LET lower == start_ts - tf_ms IN
    IF lower <= t_ms /\ t_ms <= end_ts
    THEN [exc |-> "none", val |-> [tf_ms |-> tf_ms]]
    ELSE [exc |-> "AssertionError", val |-> [tf_ms |-> tf_ms]]

WindowInit ==
    /\ HelperInit
    /\ \E tf \in WindowTfs, e \in WindowEnds :
        \E t \in WindowTs(WindowStart, e) :
            args = [timeframe |-> tf, start_ts |-> WindowStart, end_ts |-> e,
                    t |-> t]

\* tf_ms = interval_ms(timeframe);
\* assert_time_in_window_with_alignment(t, start_ts, end_ts, tf_ms)
CallAssertTimeInWindow ==
    /\ pc = "call"
    /\ LET tf_ms == IntervalMs(args.timeframe) IN
        Returns("assert_time_in_window_with_alignment",
                AssertTimeInWindowWithAlignment(args.t, args.start_ts,
                                                args.end_ts, tf_ms))

WindowNext == CallAssertTimeInWindow

SpecWindow == WindowInit /\ [][WindowNext]_vars

\* The length of a timeframe in milliseconds: one, five and sixty minutes;
\* for a code outside the table, the interval the check was given.
IntervalOf(tf) ==
    CASE tf = "M1" -> 60000 [] tf = "M5" -> 300000 [] tf = "H1" -> 3600000
      [] OTHER -> ret.tf_ms

\* C17: the time-window check accepts an open time t for the window
\* [start_ts, end_ts] and interval I if and only if start_ts - I <= t <= end_ts:
\* one full interval of slack before start_ts, none after end_ts.
C17_AcceptsIffWithinSlackWindow ==
    fn = "assert_time_in_window_with_alignment" =>
        (exc = "none" <=>
            /\ args.start_ts - IntervalOf(args.timeframe) <= args.t
            /\ args.t <= args.end_ts)

\* An open time exactly one interval before start_ts was accepted.
C17_Witness ==
    /\ fn = "assert_time_in_window_with_alignment" /\ exc = "none"
    /\ args.timeframe = "M5" /\ args.t = args.start_ts - 300000
    /\ args.t < args.start_ts

RECURSIVE HeartbeatIds(_)
\* The ids of the server heartbeats among the frames fs, in order.
HeartbeatIds(fs) ==
    IF fs = <<>> THEN <<>>
    ELSE IF Head(fs).method = "public/heartbeat"
    THEN <<Head(fs).id>> \o HeartbeatIds(Tail(fs))
    ELSE HeartbeatIds(Tail(fs))

\* C21: every server heartbeat is answered by the receive task with exactly
\* one respond-heartbeat carrying its id (the replies sent are, in order, the
\* replies to the heartbeats received; while the task is reading, none is
\* outstanding; only the heartbeat being answered when the connection is
\* closed or breaks stays unanswered) and is never put on the queue; every
\* other frame is put on the queue exactly once; and the task is never held
\* up in put(), so a reply never waits for the consumer to drain the queue.
C21_HeartbeatsAnsweredNeverQueued ==
    LET ids == HeartbeatIds(received) IN
    /\ Len(sent) <= Len(ids) /\ Len(sent) >= Len(ids) - 1
    /\ \A i \in 1..Len(sent) :
        sent[i] = [method |-> "public/respond-heartbeat", id |-> ids[i]]
    /\ rl_pc = "recv" => Len(sent) = Len(ids)
    /\ (rl_pc = "respond" /\ ~closed) =>
        (Len(sent) = Len(ids) - 1 /\ hb_id = ids[Len(ids)])
    /\ \A i \in 1..Len(queue) : queue[i].method # "public/heartbeat"
    /\ \A i \in 1..Len(delivered) : delivered[i].method # "public/heartbeat"
    /\ Len(delivered) + Len(queue) = Len(received) - Len(ids)
    /\ rl_pc # "put"

\* Two heartbeats were answered, each with its id, while a message the
\* consumer never asked for was sitting on the queue.
C21_Witness ==
    /\ ~closed /\ rl_pc = "recv"
    /\ Len(received) = 3 /\ received[1].method # "public/heartbeat"
    /\ Len(sent) = 2 /\ sent[1].id # sent[2].id
    /\ Len(queue) = 1 /\ delivered = <<>> /\ c_pc = "idle"


---------------------------------------------------------------------------
\* The waits of test_book_delta_sequence on the shared queue (under Spec).

\* A step in which wait_subscribe_ack, wait_first_data or the delta loop took
\* a message from the queue.
TookMessage ==
    /\ \/ pc \in {"wait_ack", "first_data"}
       \/ pc = "loop" /\ now < deadline
    /\ timedOut' = timedOut

\* C22: the waits consume the shared queue destructively. Every message a
\* wait takes is removed from the queue, so no later wait sees it; the first
\* data returned was taken after the acknowledgment and lay behind it in the
\* queue, never ahead of it; and a data payload that the acknowledgment wait
\* discarded has neither seeded nor matched the cursor: the payload that
\* seeds it is the one of the message wait_first_data returned.
C22_WaitsConsumeDestructively ==
    /\ [](/\ fd_msg # NoMsg =>
                /\ ack_msg # NoMsg /\ ack_round = round_no
                /\ \/ fd_behind < ack_behind
                   \/ ack_behind = -1 /\ fd_behind = -1
          /\ (ack_dropped /\ pc \in {"wait_ack", "first_data", "seed"}) =>
                (last_u = None /\ ~cursorMatch /\ ~hit.found)
          /\ (ack_dropped /\ pc = "seed") => payload = EnvelopeOrSelf(fd_msg))
    /\ [][TookMessage =>
             queue' = (IF queue = <<>> THEN <<>> ELSE Tail(queue))]_vars

\* A snapshot was queued ahead of the acknowledgment: the acknowledgment wait
\* discarded it, and wait_first_data returned on a message that arrived later.
C22_Witness ==
    /\ pc = "seed" /\ ack_dropped
    /\ ack_behind = 0 /\ fd_behind = -1
    /\ Qualifies(fd_msg, ExpectedCh)
    /\ queue = <<>>

===========================================================================
